---- MODULE Spec2Model ----
(***************************************************************************)
(* HTTP Auth Interceptor Module for AngularJS (http-auth-interceptor.js).  *)
(*                                                                         *)
(* The model follows the JavaScript run-to-completion discipline: `stack`  *)
(* is the call stack of the module's functions.  When it is empty the      *)
(* event loop dispatches the next task (a failed response, the completion  *)
(* of a replayed request, or a call of the application into authService);  *)
(* otherwise the function on top of the stack executes its next statement. *)
(***************************************************************************)
EXTENDS Integers, Sequences, FiniteSets, TLC

\* Number of deferreds ($q.defer()) the model lets responseError create.
MaxDeferred == 2

VARIABLES
  responseErrorFilter,  \* module variable responseErrorFilter (name of the installed function)
  requestFilter,        \* module variable requestFilter
  requestPreprocessor,  \* module variable requestPreprocessor
  buffer,               \* httpBuffer's `buffer`: sequence of [config, deferred]
  deferreds,            \* every deferred created by responseError
  issued,               \* replays handed to $http by retryHttpRequest and not yet completed
  stack,                \* call stack of the module's functions
  log,                  \* $rootScope.$broadcast calls of the current task, in order
  ret,                  \* what the interceptor returned to the $http pipeline in the current task
  abandoned             \* history: deferreds whose entry rejectAll dropped without rejecting

vars == <<responseErrorFilter, requestFilter, requestPreprocessor, buffer,
          deferreds, issued, stack, log, ret, abandoned>>

----------------------------------------------------------------------------
(* Values *)

Undefined == "undefined"

Urls == {"/a", "/b"}
Tokens == {"", "t"}
Statuses == {400, 401, 403, 500}

\* A rejection without a config (rejection.config is undefined).
NoConfig == [defined |-> FALSE, url |-> "", ignoreAuthModule |-> FALSE, token |-> ""]
\* The object literal {} of `rejection.config || {}`.
EmptyObject == [defined |-> TRUE, url |-> "", ignoreAuthModule |-> FALSE, token |-> ""]
Configs == [defined : {TRUE}, url : Urls, ignoreAuthModule : BOOLEAN, token : Tokens]

Val(kind, status, config, reason) ==
  [kind |-> kind, status |-> status, config |-> config, reason |-> reason]
NoValue == Val("none", 0, NoConfig, Undefined)
\* A failed response as the transport hands it to responseError.
Rejection(status, config) == Val("rejection", status, config, Undefined)
\* A successful response of the transport.
Response(config) == Val("response", 200, config, Undefined)
\* The `reason` argument of loginCancelled / rejectAll, as a settlement value.
ReasonVal(reason) == Val("reason", 0, NoConfig, reason)

\* Configs of the requests the application issues (a token is added only by
\* the preprocessor or by loginConfirmed's updater).
RequestConfigs == {c \in Configs : c.token = ""}

\* The failed responses the transport delivers for application requests.
\* A rejection that carries no config is drawn for the statuses 403 and 500.
Rejections ==
  {Rejection(s, c) : s \in Statuses, c \in RequestConfigs}
    \cup {Rejection(s, NoConfig) : s \in {403, 500}}

\* Arguments the application passes.  "" is a defined but falsy reason.
Reasons == {Undefined, "", "cancelled"}
Datas == {Undefined, "user"}
Updaters == {Undefined, "addToken"}
ResponseErrorFilters == {"default", "skipB"}
RequestFilters == {"default", "onlyA"}
RequestPreprocessors == {"default", "addToken"}

\* JavaScript truthiness of an argument: undefined and "" are falsy.
Truthy(v) == v \notin {Undefined, ""}

----------------------------------------------------------------------------
(* The installable hooks *)

\* responseErrorFilter(rejection): "default" is the function of lines 17-19;
\* "skipB" is an application filter that ignores the errors of url /b.
ApplyResponseErrorFilter(f, rejection) ==
  IF f = "default" THEN TRUE ELSE rejection.config.url # "/b"

\* requestFilter(requestConfig): "default" is the function of lines 21-23;
\* "onlyA" is an application filter that selects the requests to url /a.
ApplyRequestFilter(f, config) ==
  IF f = "default" THEN FALSE ELSE config.url = "/a"

\* requestPreprocessor(requestConfig): "default" is the function of lines
\* 25-27; "addToken" is an application preprocessor that adds a header.
ApplyRequestPreprocessor(f, config) ==
  IF f = "default" THEN config ELSE [config EXCEPT !.token = "t"]

\* Mutant of ApplyUpdater: the updater is not applied to the replayed config.
ApplyUpdaterDropped(configUpdater, config) == config

\* `configUpdater || function(config) {return config;}` applied to a config.
ApplyUpdater(configUpdater, config) ==
  IF Truthy(configUpdater) THEN [config EXCEPT !.token = "t"] ELSE config

\* The updaters of a host that does not keep to "must return the request":
\* "failsOnB" adds the token like "addToken" but throws for a config of /b.
HostUpdaters == Updaters \cup {"failsOnB"}
UpdaterThrows(configUpdater, config) ==
  configUpdater = "failsOnB" /\ config.url = "/b"

\* The interceptor's `request` function: what is sent for `config`.
RequestInterceptor(config) ==
  IF ~ApplyRequestFilter(requestFilter, config)
    THEN config
    ELSE ApplyRequestPreprocessor(requestPreprocessor, config)

----------------------------------------------------------------------------
(* Deferreds *)

\* responseError creates at most MaxDeferred deferreds; one more is left for
\* the deferred the host creates for its own call of httpBuffer.append.
Deferreds == 1..(MaxDeferred + 1)

NoDeferred == [state |-> "unused", settled |-> 0, value |-> NoValue, follower |-> 0]

\* Number of deferreds created so far; they are numbered in creation order.
Created == Cardinality({h \in Deferreds : deferreds[h].state # "unused"})

\* deferred.resolve(value) / deferred.reject(value) on deferred h.  `settled`
\* counts the calls; $q lets only the first one take effect.  `follower` is
\* the deferred of the replay whose $http promise waits for h (the
\* successCallback / errorCallback of retryHttpRequest), settled in turn.
RECURSIVE Settle(_, _, _, _)
Settle(ds, h, state, value) ==
  LET d == ds[h]
      counted == [ds EXCEPT ![h].settled = IF d.settled < 2 THEN d.settled + 1 ELSE 2]
  IN  IF d.state # "pending"
        THEN counted
        ELSE LET done == [counted EXCEPT ![h].state = state, ![h].value = value]
             IN  IF d.follower = 0 THEN done
                 ELSE Settle(done, d.follower, state, value)

----------------------------------------------------------------------------
(* Call stack *)

NoRet == [kind |-> "none", value |-> NoValue, deferred |-> 0]

\* A call of one of the module's functions: its position `pc`, its
\* arguments and locals, and (history, for stating properties of the whole
\* call) the buffer, the replays in flight and the deferreds at its entry.
Frame(op, pc) ==
  [op |-> op, pc |-> pc, i |-> 0,
   rejection |-> NoValue, replayOf |-> 0, category |-> "", deferred |-> 0,
   data |-> Undefined, updater |-> Undefined, reason |-> Undefined,
   config |-> NoConfig, calledBack |-> FALSE,
   buffer0 |-> buffer, issued0 |-> issued, deferreds0 |-> deferreds]

Idle == stack = <<>>
Running(op, pc) ==
  /\ stack # <<>>
  /\ stack[Len(stack)].op = op
  /\ stack[Len(stack)].pc = pc
top == stack[Len(stack)]
Push(frame) == Append(stack, frame)
Pop == SubSeq(stack, 1, Len(stack) - 1)
SetTop(frame) == [stack EXCEPT ![Len(stack)] = frame]

RemoveAt(s, k) == SubSeq(s, 1, k - 1) \o SubSeq(s, k + 1, Len(s))

hooks == <<responseErrorFilter, requestFilter, requestPreprocessor>>

----------------------------------------------------------------------------
Init ==
  /\ responseErrorFilter = "default"
  /\ requestFilter = "default"
  /\ requestPreprocessor = "default"
  /\ buffer = <<>>
  /\ deferreds = [h \in Deferreds |-> NoDeferred]
  /\ issued = <<>>
  /\ stack = <<>>
  /\ log = <<>>
  /\ ret = NoRet
  /\ abandoned = {}

----------------------------------------------------------------------------
(* authService setters *)

\* Mutant of SetResponseErrorFilter: installing a filter also discards the
\* requests parked under the old one.
SetResponseErrorFilterResetting(func) ==
  /\ Idle
  /\ responseErrorFilter' = func
  /\ buffer' = <<>>
  /\ UNCHANGED <<requestFilter, requestPreprocessor, deferreds, issued,
                 stack, log, ret, abandoned>>

SetResponseErrorFilter(func) ==
  /\ Idle
  /\ responseErrorFilter' = func
  /\ UNCHANGED <<requestFilter, requestPreprocessor, buffer, deferreds, issued,
                 stack, log, ret, abandoned>>

SetRequestFilter(func) ==
  /\ Idle
  /\ requestFilter' = func
  /\ UNCHANGED <<responseErrorFilter, requestPreprocessor, buffer, deferreds,
                 issued, stack, log, ret, abandoned>>

SetRequestPreprocessor(func) ==
  /\ Idle
  /\ requestPreprocessor' = func
  /\ UNCHANGED <<responseErrorFilter, requestFilter, buffer, deferreds, issued,
                 stack, log, ret, abandoned>>

----------------------------------------------------------------------------
(* The $http interceptor: responseError *)

\* Mutant of Classify: the ignoreAuthModule test is missing.
ClassifyNoOptOut(filter, rejection) ==
  IF ~ApplyResponseErrorFilter(filter, rejection) THEN "filtered"
  ELSE IF rejection.status = 400 THEN "missingParameter"
  ELSE IF rejection.status = 401 THEN "loginRequired"
  ELSE IF rejection.status = 403 THEN "forbidden"
  ELSE "default"

\* Mutant of Classify: case 403 is handled like case 401.
ClassifyForbiddenParks(filter, rejection) ==
  LET config == IF rejection.config.defined THEN rejection.config ELSE EmptyObject
  IN  IF ~ApplyResponseErrorFilter(filter, rejection) THEN "filtered"
      ELSE IF config.ignoreAuthModule THEN "ignored"
      ELSE IF rejection.status = 400 THEN "missingParameter"
      ELSE IF rejection.status \in {401, 403} THEN "loginRequired"
      ELSE "default"

\* Mutant of Classify: the responseErrorFilter is not consulted.
ClassifyUnfiltered(filter, rejection) ==
  LET config == IF rejection.config.defined THEN rejection.config ELSE EmptyObject
  IN  IF config.ignoreAuthModule THEN "ignored"
      ELSE IF rejection.status = 400 THEN "missingParameter"
      ELSE IF rejection.status = 401 THEN "loginRequired"
      ELSE IF rejection.status = 403 THEN "forbidden"
      ELSE "default"

\* The branch responseError takes for a rejection (lines 118-141).
Classify(filter, rejection) ==
  LET config == IF rejection.config.defined THEN rejection.config ELSE EmptyObject
  IN  IF ~ApplyResponseErrorFilter(filter, rejection) THEN "filtered"
      ELSE IF config.ignoreAuthModule THEN "ignored"
      ELSE IF rejection.status = 400 THEN "missingParameter"
      ELSE IF rejection.status = 401 THEN "loginRequired"
      ELSE IF rejection.status = 403 THEN "forbidden"
      ELSE "default"

\* Mutant of EventName: the event names of case 400 and case 401 are swapped.
EventNameSwapped(category) ==
  CASE category = "missingParameter" -> "event:auth-loginRequired"
    [] category = "loginRequired"    -> "event:auth-missingParameter"
    [] category = "forbidden"        -> "event:auth-forbidden"

\* The event name broadcast in each branch of the switch.
EventName(category) ==
  CASE category = "missingParameter" -> "event:auth-missingParameter"
    [] category = "loginRequired"    -> "event:auth-loginRequired"
    [] category = "forbidden"        -> "event:auth-forbidden"

\* $rootScope.$broadcast(name, payload)
Broadcast(name, payload) == Append(log, [name |-> name, payload |-> payload])

\* Payload of the loginConfirmed / loginCancelled events.
DataVal(data) == Val("data", 0, NoConfig, data)

\* Mutant of Deliver: errorCallback does not wait for the promise of a replay
\* that was parked again but rejects the replayed entry's deferred at once.
DeliverRejectsParked(ds, replayOf, r) ==
  IF replayOf = 0 THEN ds
  ELSE IF r.kind = "rejected" THEN Settle(ds, replayOf, "rejected", r.value)
  ELSE Settle(ds, replayOf, "rejected", r.value)

\* Mutant of Deliver: retryHttpRequest attaches no errorCallback, so a failed
\* replay reaches no deferred.
DeliverSuccessOnly(ds, replayOf, r) ==
  IF replayOf = 0 \/ r.kind = "rejected" THEN ds
  ELSE IF ds[r.deferred].state = "pending"
         THEN [ds EXCEPT ![r.deferred].follower = replayOf]
         ELSE Settle(ds, replayOf, ds[r.deferred].state, ds[r.deferred].value)

\* What the value returned by responseError does to the request it was
\* called for.  For an application request (replayOf = 0) the returned
\* promise is the caller's completion itself.  For a replay it is the promise
\* of `$http(config)` in retryHttpRequest, whose errorCallback rejects the
\* replayed entry's deferred; while the returned promise is the pending
\* promise of a newly parked deferred, that callback waits for it.
Deliver(ds, replayOf, r) ==
  IF replayOf = 0 THEN ds
  ELSE IF r.kind = "rejected" THEN Settle(ds, replayOf, "rejected", r.value)
  ELSE IF ds[r.deferred].state = "pending"
         THEN [ds EXCEPT ![r.deferred].follower = replayOf]
         ELSE Settle(ds, replayOf, ds[r.deferred].state, ds[r.deferred].value)

\* The transport reports the failure of a request of the application:
\* the $http pipeline calls responseError(rejection).
FailedResponse(rejection) ==
  /\ Idle
  /\ Created < MaxDeferred
  /\ stack' = Push([Frame("responseError", "start") EXCEPT !.rejection = rejection])
  /\ UNCHANGED <<hooks, buffer, deferreds, issued, log, ret, abandoned>>

\* `return $q.reject(rejection)`: the filter says no (line 119), or the
\* request opted out, or the status is not handled (line 141).
ResponseErrorReject ==
  /\ Running("responseError", "start")
  /\ Classify(responseErrorFilter, top.rejection) \in {"filtered", "ignored", "default"}
  /\ ret' = [kind |-> "rejected", value |-> top.rejection, deferred |-> 0]
  /\ deferreds' = Deliver(deferreds, top.replayOf, ret')
  /\ stack' = SetTop([top EXCEPT !.pc = "done"])
  /\ UNCHANGED <<hooks, buffer, issued, log, abandoned>>

\* Mutant of ResponseErrorAppend: the deferred is created but the entry is
\* not in the buffer when the event is broadcast.
ResponseErrorAppendMissing ==
  /\ Running("responseError", "start")
  /\ Classify(responseErrorFilter, top.rejection) \in {"missingParameter", "loginRequired"}
  /\ LET deferred == Created + 1
     IN  /\ deferreds' = [deferreds EXCEPT ![deferred] =
                            [state |-> "pending", settled |-> 0,
                             value |-> NoValue, follower |-> 0]]
         /\ stack' = SetTop([top EXCEPT
                               !.pc = "broadcast", !.deferred = deferred,
                               !.category = Classify(responseErrorFilter, top.rejection)])
  /\ UNCHANGED <<hooks, buffer, issued, log, ret, abandoned>>

\* case 400 / case 401: `var deferred = $q.defer(); httpBuffer.append(config, deferred);`
ResponseErrorAppend ==
  /\ Running("responseError", "start")
  /\ Classify(responseErrorFilter, top.rejection) \in {"missingParameter", "loginRequired"}
  /\ LET deferred == Created + 1
         config == IF top.rejection.config.defined THEN top.rejection.config
                   ELSE EmptyObject
     IN  /\ deferreds' = [deferreds EXCEPT ![deferred] =
                            [state |-> "pending", settled |-> 0,
                             value |-> NoValue, follower |-> 0]]
         /\ buffer' = Append(buffer, [config |-> config, deferred |-> deferred])
         /\ stack' = SetTop([top EXCEPT
                               !.pc = "broadcast", !.deferred = deferred,
                               !.category = Classify(responseErrorFilter, top.rejection)])
  /\ UNCHANGED <<hooks, issued, log, ret, abandoned>>

\* `$rootScope.$broadcast('event:auth-...', rejection)` of the three cases.
ResponseErrorBroadcast ==
  /\ \/ Running("responseError", "broadcast")
     \/ /\ Running("responseError", "start")
        /\ Classify(responseErrorFilter, top.rejection) = "forbidden"
  /\ LET category == IF top.pc = "start" THEN "forbidden" ELSE top.category
     IN  /\ log' = Broadcast(EventName(category), top.rejection)
         /\ stack' = SetTop([top EXCEPT !.pc = "listeners", !.category = category])
  /\ UNCHANGED <<hooks, buffer, deferreds, issued, ret, abandoned>>

\* The listeners have run: `return deferred.promise` (400, 401) or
\* `break; ... return $q.reject(rejection)` (403).
ResponseErrorReturn ==
  /\ Running("responseError", "listeners")
  /\ ret' = IF top.deferred # 0
              THEN [kind |-> "promise", value |-> NoValue, deferred |-> top.deferred]
              ELSE [kind |-> "rejected", value |-> top.rejection, deferred |-> 0]
  /\ deferreds' = Deliver(deferreds, top.replayOf, ret')
  /\ stack' = SetTop([top EXCEPT !.pc = "done"])
  /\ UNCHANGED <<hooks, buffer, issued, log, abandoned>>

----------------------------------------------------------------------------
(* authService.loginConfirmed and httpBuffer.retryAll *)

\* Mutant of LoginConfirmed: retryAll is entered without broadcasting first.
LoginConfirmedRetryFirst(data, configUpdater) ==
  /\ Idle
  /\ stack' = Push([Frame("loginConfirmed", "retryAll") EXCEPT
                      !.data = data, !.updater = configUpdater])
  /\ UNCHANGED <<hooks, buffer, deferreds, issued, log, ret, abandoned>>

\* The application calls authService.loginConfirmed(data, configUpdater).
LoginConfirmed(data, configUpdater) ==
  /\ Idle
  /\ stack' = Push([Frame("loginConfirmed", "broadcast") EXCEPT
                      !.data = data, !.updater = configUpdater])
  /\ UNCHANGED <<hooks, buffer, deferreds, issued, log, ret, abandoned>>

\* Mutant of LoginConfirmedBroadcast: the event is broadcast only when a
\* request is parked.
LoginConfirmedBroadcastIfParked ==
  /\ Running("loginConfirmed", "broadcast")
  /\ log' = IF buffer = <<>>
              THEN log
              ELSE Broadcast("event:auth-loginConfirmed", DataVal(top.data))
  /\ stack' = SetTop([top EXCEPT !.pc = "listeners"])
  /\ UNCHANGED <<hooks, buffer, deferreds, issued, ret, abandoned>>

\* `$rootScope.$broadcast('event:auth-loginConfirmed', data)`
LoginConfirmedBroadcast ==
  /\ Running("loginConfirmed", "broadcast")
  /\ log' = Broadcast("event:auth-loginConfirmed", DataVal(top.data))
  /\ stack' = SetTop([top EXCEPT !.pc = "listeners"])
  /\ UNCHANGED <<hooks, buffer, deferreds, issued, ret, abandoned>>

\* The listeners have run: `httpBuffer.retryAll(updater)` is entered, `var i = 0`.
LoginConfirmedRetryAll ==
  /\ Running("loginConfirmed", "listeners")
  /\ stack' = SetTop([top EXCEPT !.pc = "retryAll", !.i = 0])
  /\ UNCHANGED <<hooks, buffer, deferreds, issued, log, ret, abandoned>>

\* Loop test `i < buffer.length` holds: `updater(buffer[i].config)` is evaluated.
RetryAllUpdater ==
  /\ Running("loginConfirmed", "retryAll")
  /\ top.i < Len(buffer)
  /\ ~UpdaterThrows(top.updater, buffer[top.i + 1].config)
  /\ stack' = SetTop([top EXCEPT !.pc = "updater",
                        !.config = ApplyUpdater(top.updater, buffer[top.i + 1].config)])
  /\ UNCHANGED <<hooks, buffer, deferreds, issued, log, ret, abandoned>>

\* retryHttpRequest(config, deferred): `$http(config).then(successCallback,
\* errorCallback)`.  The request passes the `request` interceptor on its way
\* out; `sent` is the config the transport gets.
RetryHttpRequest(config, deferred) ==
  Append(issued, [config |-> config, sent |-> RequestInterceptor(config),
                  deferred |-> deferred])

\* `retryHttpRequest(<updated config>, buffer[i].deferred); ++i`
RetryAllIssue ==
  /\ Running("loginConfirmed", "updater")
  /\ top.i < Len(buffer)
  /\ issued' = RetryHttpRequest(top.config, buffer[top.i + 1].deferred)
  /\ stack' = SetTop([top EXCEPT !.pc = "retryAll", !.i = top.i + 1])
  /\ UNCHANGED <<hooks, buffer, deferreds, log, ret, abandoned>>

\* Mutant of RetryAllClear: retryAll does not clear the buffer.
RetryAllNoClear ==
  /\ Running("loginConfirmed", "retryAll")
  /\ ~(top.i < Len(buffer))
  /\ stack' = SetTop([top EXCEPT !.pc = "done"])
  /\ UNCHANGED <<hooks, buffer, deferreds, issued, log, ret, abandoned>>

\* Loop test fails: `buffer = []`; retryAll and loginConfirmed are at their end.
RetryAllClear ==
  /\ Running("loginConfirmed", "retryAll")
  /\ ~(top.i < Len(buffer))
  /\ buffer' = <<>>
  /\ stack' = SetTop([top EXCEPT !.pc = "done"])
  /\ UNCHANGED <<hooks, deferreds, issued, log, ret, abandoned>>

----------------------------------------------------------------------------
(* authService.loginCancelled and httpBuffer.rejectAll *)

\* The application calls authService.loginCancelled(data, reason):
\* `httpBuffer.rejectAll(reason)` is entered.
LoginCancelled(data, reason) ==
  /\ Idle
  /\ stack' = Push([Frame("loginCancelled", "rejectAll") EXCEPT
                      !.data = data, !.reason = reason])
  /\ UNCHANGED <<hooks, buffer, deferreds, issued, log, ret, abandoned>>

\* `if (reason)` holds and `i < buffer.length`: `buffer[i].deferred.reject(reason); ++i`
RejectAllReject ==
  /\ Running("loginCancelled", "rejectAll")
  /\ Truthy(top.reason)
  /\ top.i < Len(buffer)
  /\ deferreds' = Settle(deferreds, buffer[top.i + 1].deferred, "rejected",
                         ReasonVal(top.reason))
  /\ stack' = SetTop([top EXCEPT !.i = top.i + 1])
  /\ UNCHANGED <<hooks, buffer, issued, log, ret, abandoned>>

\* Mutant of RejectAllClear: rejectAll returns without `buffer = []`.
RejectAllKeepsBuffer ==
  /\ Running("loginCancelled", "rejectAll")
  /\ ~(Truthy(top.reason) /\ top.i < Len(buffer))
  /\ stack' = SetTop([top EXCEPT !.pc = "broadcast"])
  /\ UNCHANGED <<hooks, buffer, deferreds, issued, log, ret, abandoned>>

\* Mutant of RejectAllClear: `buffer = []` is inside `if (reason)`.
RejectAllClearInsideIf ==
  /\ Running("loginCancelled", "rejectAll")
  /\ ~(Truthy(top.reason) /\ top.i < Len(buffer))
  /\ buffer' = IF Truthy(top.reason) THEN <<>> ELSE buffer
  /\ abandoned' = IF Truthy(top.reason) THEN abandoned
                  ELSE abandoned \cup {buffer[k].deferred : k \in 1..Len(buffer)}
  /\ stack' = SetTop([top EXCEPT !.pc = "broadcast"])
  /\ UNCHANGED <<hooks, deferreds, issued, log, ret>>

\* `if (reason)` fails, or the loop has ended: `buffer = []`, rejectAll returns.
RejectAllClear ==
  /\ Running("loginCancelled", "rejectAll")
  /\ ~(Truthy(top.reason) /\ top.i < Len(buffer))
  /\ buffer' = <<>>
  /\ abandoned' = IF Truthy(top.reason) THEN abandoned
                  ELSE abandoned \cup {buffer[k].deferred : k \in 1..Len(buffer)}
  /\ stack' = SetTop([top EXCEPT !.pc = "broadcast"])
  /\ UNCHANGED <<hooks, deferreds, issued, log, ret>>

\* `$rootScope.$broadcast('event:auth-loginCancelled', data)`
LoginCancelledBroadcast ==
  /\ Running("loginCancelled", "broadcast")
  /\ log' = Broadcast("event:auth-loginCancelled", DataVal(top.data))
  /\ stack' = SetTop([top EXCEPT !.pc = "listeners"])
  /\ UNCHANGED <<hooks, buffer, deferreds, issued, ret, abandoned>>

\* The listeners have run: loginCancelled is at its end.
LoginCancelledReturn ==
  /\ Running("loginCancelled", "listeners")
  /\ stack' = SetTop([top EXCEPT !.pc = "done"])
  /\ UNCHANGED <<hooks, buffer, deferreds, issued, log, ret, abandoned>>

----------------------------------------------------------------------------
(* Completion of the replays issued by retryHttpRequest *)

\* The transport answers replay k with success: successCallback resolves
\* the entry's deferred with the response.
ReplaySucceeded(k) ==
  /\ Idle
  /\ k \in 1..Len(issued)
  /\ deferreds' = Settle(deferreds, issued[k].deferred, "resolved",
                         Response(issued[k].sent))
  /\ issued' = RemoveAt(issued, k)
  /\ UNCHANGED <<hooks, buffer, stack, log, ret, abandoned>>

\* The transport answers replay k with a failure: the replay went through
\* $http, so responseError is called for it; what it returns decides the
\* promise retryHttpRequest's callbacks are attached to.
ReplayFailed(k, status) ==
  /\ Idle
  /\ k \in 1..Len(issued)
  /\ Created < MaxDeferred
  /\ stack' = Push([Frame("responseError", "start") EXCEPT
                      !.rejection = Rejection(status, issued[k].sent),
                      !.replayOf = issued[k].deferred])
  /\ issued' = RemoveAt(issued, k)
  /\ UNCHANGED <<hooks, buffer, deferreds, log, ret, abandoned>>

----------------------------------------------------------------------------
(* The $http interceptor: request *)

\* The application issues a request: the pipeline calls request(config) and
\* sends what it returns.
Request(config) ==
  /\ Idle
  /\ stack' = Push([Frame("request", "start") EXCEPT !.config = config])
  /\ UNCHANGED <<hooks, buffer, deferreds, issued, log, ret, abandoned>>

\* Mutant of RequestReturn: the config is returned as it is whatever
\* requestFilter says.
RequestReturnUnfiltered ==
  /\ Running("request", "start")
  /\ ret' = [kind |-> "config",
             value |-> Val("config", 0, top.config, Undefined),
             deferred |-> 0]
  /\ stack' = SetTop([top EXCEPT !.pc = "done", !.category = "skipped"])
  /\ UNCHANGED <<hooks, buffer, deferreds, issued, log, abandoned>>

\* `if (!requestFilter(config)) { return config; }`: the request is skipped.
RequestReturn ==
  /\ Running("request", "start")
  /\ ~ApplyRequestFilter(requestFilter, top.config)
  /\ ret' = [kind |-> "config",
             value |-> Val("config", 0, top.config, Undefined),
             deferred |-> 0]
  /\ stack' = SetTop([top EXCEPT !.pc = "done", !.category = "skipped"])
  /\ UNCHANGED <<hooks, buffer, deferreds, issued, log, abandoned>>

\* `return requestPreprocessor(config)`: requestFilter returned true and the
\* preprocessor is invoked.
RequestPreprocess ==
  /\ Running("request", "start")
  /\ ApplyRequestFilter(requestFilter, top.config)
  /\ ret' = [kind |-> "config",
             value |-> Val("config", 0,
                           ApplyRequestPreprocessor(requestPreprocessor, top.config),
                           Undefined),
             deferred |-> 0]
  /\ stack' = SetTop([top EXCEPT !.pc = "done", !.category = "preprocessed"])
  /\ UNCHANGED <<hooks, buffer, deferreds, issued, log, abandoned>>

----------------------------------------------------------------------------
(* The event loop *)

\* The function on top of the stack has reached its end and returns.  When
\* it was the task's outermost call the task is over: `log` and `ret`, which
\* describe the current task, start afresh for the next one.
Return ==
  /\ stack # <<>>
  /\ top.pc = "done"
  /\ stack' = Pop
  /\ IF Len(stack) = 1
       THEN log' = <<>> /\ ret' = NoRet
       ELSE UNCHANGED <<log, ret>>
  /\ UNCHANGED <<hooks, buffer, deferreds, issued, abandoned>>

----------------------------------------------------------------------------
Next ==
  \/ \E func \in ResponseErrorFilters : SetResponseErrorFilter(func)
  \/ \E func \in RequestFilters : SetRequestFilter(func)
  \/ \E func \in RequestPreprocessors : SetRequestPreprocessor(func)
  \/ \E config \in RequestConfigs : Request(config)
  \/ RequestReturn
  \/ RequestPreprocess
  \/ Return
  \/ \E rejection \in Rejections : FailedResponse(rejection)
  \/ ResponseErrorReject
  \/ ResponseErrorAppend
  \/ ResponseErrorBroadcast
  \/ ResponseErrorReturn
  \/ \E data \in Datas, configUpdater \in Updaters : LoginConfirmed(data, configUpdater)
  \/ LoginConfirmedBroadcast
  \/ LoginConfirmedRetryAll
  \/ RetryAllUpdater
  \/ RetryAllIssue
  \/ RetryAllClear
  \/ \E data \in Datas, reason \in Reasons : LoginCancelled(data, reason)
  \/ RejectAllReject
  \/ RejectAllClear
  \/ LoginCancelledBroadcast
  \/ LoginCancelledReturn
  \/ \E k \in 1..MaxDeferred : ReplaySucceeded(k)
  \/ \E k \in 1..MaxDeferred, status \in Statuses : ReplayFailed(k, status)

Spec == Init /\ [][Next]_vars

----------------------------------------------------------------------------
(* Callbacks of the host that call back into the module, or throw *)

\* The host's code is running inside the outermost call of the task: a
\* listener of the parking notification of responseError, or the updater
\* retryAll has called.
InListener == Len(stack) = 1 /\ top.op = "responseError" /\ top.pc = "listeners"
                             /\ top.deferred # 0
InUpdater == Len(stack) = 1 /\ top.op = "loginConfirmed" /\ top.pc = "updater"

\* The host's code calls into authService: the call is pushed on the frame
\* of the call the host's code runs in, which makes one such call.
PushFromCallback(frame) ==
  Append([stack EXCEPT ![1].calledBack = TRUE], frame)

\* The listener or the updater calls authService.loginConfirmed(data, configUpdater).
CallbackLoginConfirmed(data, configUpdater) ==
  /\ InListener \/ InUpdater
  /\ ~top.calledBack
  /\ stack' = PushFromCallback([Frame("loginConfirmed", "broadcast") EXCEPT
                                  !.data = data, !.updater = configUpdater])
  /\ UNCHANGED <<hooks, buffer, deferreds, issued, log, ret, abandoned>>

\* The listener or the updater calls authService.loginCancelled(data, reason).
CallbackLoginCancelled(data, reason) ==
  /\ InListener \/ InUpdater
  /\ ~top.calledBack
  /\ stack' = PushFromCallback([Frame("loginCancelled", "rejectAll") EXCEPT
                                  !.data = data, !.reason = reason])
  /\ UNCHANGED <<hooks, buffer, deferreds, issued, log, ret, abandoned>>

\* The updater parks a request of its own while retryAll is draining:
\* `httpBuffer.append(config, $q.defer())`.
CallbackAppend(config) ==
  /\ InUpdater
  /\ Created < MaxDeferred + 1
  /\ LET deferred == Created + 1
     IN  /\ deferreds' = [deferreds EXCEPT ![deferred] =
                            [state |-> "pending", settled |-> 0,
                             value |-> NoValue, follower |-> 0]]
         /\ buffer' = Append(buffer, [config |-> config, deferred |-> deferred])
  /\ UNCHANGED <<hooks, issued, stack, log, ret, abandoned>>

\* `updater(buffer[i].config)` throws: nothing in retryAll catches it, so the
\* loop is left at once and `buffer = []` is not reached.
RetryAllUpdaterThrows ==
  /\ Running("loginConfirmed", "retryAll")
  /\ top.i < Len(buffer)
  /\ UpdaterThrows(top.updater, buffer[top.i + 1].config)
  /\ stack' = SetTop([top EXCEPT !.pc = "threw"])
  /\ UNCHANGED <<hooks, buffer, deferreds, issued, log, ret, abandoned>>

\* The updater has returned, but a call it made has emptied the buffer:
\* `buffer[i]` is undefined and `buffer[i].deferred` a TypeError.
RetryAllTypeError ==
  /\ Running("loginConfirmed", "updater")
  /\ ~(top.i < Len(buffer))
  /\ stack' = SetTop([top EXCEPT !.pc = "threw"])
  /\ UNCHANGED <<hooks, buffer, deferreds, issued, log, ret, abandoned>>

\* An exception leaves loginConfirmed.  Thrown in a call the updater made,
\* it passes through the updater into the retryAll that called it; thrown in
\* a call a listener made, $broadcast catches it and the broadcast goes on;
\* thrown in the task's outermost call, it ends the task.
Unwind ==
  /\ stack # <<>>
  /\ top.pc = "threw"
  /\ IF Len(stack) = 1
       THEN stack' = <<>> /\ log' = <<>> /\ ret' = NoRet
       ELSE /\ UNCHANGED <<log, ret>>
            /\ stack' = IF stack[Len(stack) - 1].pc = "updater"
                          THEN [Pop EXCEPT ![Len(stack) - 1].pc = "threw"]
                          ELSE Pop
  /\ UNCHANGED <<hooks, buffer, deferreds, issued, abandoned>>

\* An aborted or re-entered retryAll can issue a replay again and again:
\* the application calls loginConfirmed while the replays in flight and the
\* parked requests together are at most MaxIssued, a callback while the
\* replays in flight are fewer than MaxIssued.
MaxIssued == 2

\* The failed responses, the arguments of loginConfirmed and loginCancelled
\* and the config of the host's own entry in the runs with such callbacks: the
\* hooks stay the default ones and every failed response is a 400 or 401 in
\* scope.
ReentrantRejections ==
  {Rejection(status, config) :
     status \in {400, 401}, config \in {c \in RequestConfigs : ~c.ignoreAuthModule}}
ReentrantUpdaters == {Undefined, "failsOnB"}
ReentrantReasons == {Undefined, "cancelled"}
ReentrantConfigs == {c \in RequestConfigs : c.url = "/a" /\ ~c.ignoreAuthModule}

NextReentrant ==
  \/ Return
  \/ \E rejection \in ReentrantRejections : FailedResponse(rejection)
  \/ ResponseErrorAppend
  \/ ResponseErrorBroadcast
  \/ ResponseErrorReturn
  \/ \E configUpdater \in ReentrantUpdaters :
       /\ Len(issued) + Len(buffer) <= MaxIssued
       /\ LoginConfirmed("user", configUpdater)
  \/ LoginConfirmedBroadcast
  \/ LoginConfirmedRetryAll
  \/ RetryAllUpdater
  \/ RetryAllIssue
  \/ RetryAllClear
  \/ \E reason \in ReentrantReasons : LoginCancelled("user", reason)
  \/ RejectAllReject
  \/ RejectAllClear
  \/ LoginCancelledBroadcast
  \/ LoginCancelledReturn
  \/ \E k \in 1..Len(issued) : ReplaySucceeded(k)
  \/ \E configUpdater \in ReentrantUpdaters :
       /\ Len(issued) < MaxIssued
       /\ CallbackLoginConfirmed("user", configUpdater)
  \/ \E reason \in ReentrantReasons : CallbackLoginCancelled("user", reason)
  \/ \E config \in ReentrantConfigs : CallbackAppend(config)
  \/ RetryAllUpdaterThrows
  \/ RetryAllTypeError
  \/ Unwind

SpecReentrant == Init /\ [][NextReentrant]_vars

----------------------------------------------------------------------------
(* Properties *)

\* The deferred h is the completion handle of an entry of the buffer.
InBuffer(h) == \E k \in 1..Len(buffer) : buffer[k].deferred = h

\* The rejection is subject to auth handling: the installed filter accepts
\* it and its request did not opt out.
InScope(rejection) ==
  /\ ApplyResponseErrorFilter(responseErrorFilter, rejection)
  /\ ~rejection.config.ignoreAuthModule

\* No deferred was created since the entry of the call on top of the stack.
NoneCreated ==
  \A h \in Deferreds : top.deferreds0[h].state = "unused" => deferreds[h].state = "unused"

Rejected(rejection) == [kind |-> "rejected", value |-> rejection, deferred |-> 0]

\* C1, at the end of responseError: for a failed response with status 400
\* or 401 that the installed filter accepts and whose config does not set
\* ignoreAuthModule, the buffer is the buffer at entry plus exactly one entry
\* (the response's config with a deferred that did not exist before),
\* exactly one notification was broadcast (missingParameter for 400,
\* loginRequired for 401, with the rejection as payload), and the promise
\* of that deferred, still pending, is what the caller gets.
C1_Parked ==
  ( /\ Running("responseError", "done")
    /\ InScope(top.rejection)
    /\ top.rejection.status \in {400, 401} )
  => \E d \in Deferreds :
       /\ top.deferreds0[d].state = "unused"
       /\ buffer = Append(top.buffer0, [config |-> top.rejection.config, deferred |-> d])
       /\ log = << [name |-> IF top.rejection.status = 400
                               THEN "event:auth-missingParameter"
                               ELSE "event:auth-loginRequired",
                    payload |-> top.rejection] >>
       /\ ret = [kind |-> "promise", value |-> NoValue, deferred |-> d]
       /\ deferreds[d].state = "pending"
       /\ deferreds[d].settled = 0

\* C1, afterwards: a step that is not executed by loginConfirmed or
\* loginCancelled leaves every parked deferred in the buffer, neither
\* resolved nor rejected.
C1_StaysPending ==
  \A h \in Deferreds :
    ( /\ InBuffer(h)
      /\ ~(stack # <<>> /\ top.op \in {"loginConfirmed", "loginCancelled"}) )
    => /\ InBuffer(h)'
       /\ deferreds'[h].state = "pending"
       /\ deferreds'[h].settled = 0

C2_OptOut ==
  ( /\ Running("responseError", "done")
    /\ top.rejection.config.ignoreAuthModule )
  => /\ log = <<>>
     /\ buffer = top.buffer0
     /\ deferreds = top.deferreds0
     /\ ret = Rejected(top.rejection)

\* Witness of C2: an opted-out 401 that the filter accepts has been handled
\* while another request was parked.
C2_Witness ==
  /\ Running("responseError", "done")
  /\ top.rejection.config.ignoreAuthModule
  /\ top.rejection.status = 401
  /\ ApplyResponseErrorFilter(responseErrorFilter, top.rejection)
  /\ Len(buffer) = 1

\* C3: at the end of responseError for a 403 in scope: the buffer is as at
\* entry, no deferred was created, exactly one event:auth-forbidden with the
\* rejection was broadcast, and the caller's completion is rejected with the
\* original rejection (for a replay: the replayed entry's deferred is).
C3_Forbidden ==
  ( /\ Running("responseError", "done")
    /\ InScope(top.rejection)
    /\ top.rejection.status = 403 )
  => /\ buffer = top.buffer0
     /\ NoneCreated
     /\ log = << [name |-> "event:auth-forbidden", payload |-> top.rejection] >>
     /\ ret = Rejected(top.rejection)
     /\ top.replayOf # 0 =>
          /\ deferreds[top.replayOf].state = "rejected"
          /\ deferreds[top.replayOf].value = top.rejection

\* Witness of C3: a 403 in scope has been handled while a request was parked.
C3_Witness ==
  /\ Running("responseError", "done")
  /\ InScope(top.rejection)
  /\ top.rejection.status = 403
  /\ Len(buffer) = 1
  /\ Len(log) = 1

\* C4: at the end of responseError for an unclassified failure (the
\* installed filter returns false, whatever the status, or the status is
\* none of 400, 401, 403): the buffer is as at entry, no deferred was
\* created, nothing was broadcast, and the caller's completion is rejected
\* with the original rejection.
C4_Unclassified ==
  ( /\ Running("responseError", "done")
    /\ \/ ~ApplyResponseErrorFilter(responseErrorFilter, top.rejection)
       \/ top.rejection.status \notin {400, 401, 403} )
  => /\ buffer = top.buffer0
     /\ NoneCreated
     /\ log = <<>>
     /\ ret = Rejected(top.rejection)
     /\ top.replayOf # 0 =>
          /\ deferreds[top.replayOf].state = "rejected"
          /\ deferreds[top.replayOf].value = top.rejection

\* Witness of C4: a 401 that the installed filter refuses has been handled.
C4_Witness ==
  /\ Running("responseError", "done")
  /\ ~ApplyResponseErrorFilter(responseErrorFilter, top.rejection)
  /\ top.rejection.status = 401
  /\ ~top.rejection.config.ignoreAuthModule
  /\ Len(buffer) = 1

\* The replays a call of loginConfirmed has to issue: one per entry of the
\* buffer at its entry, in order, with the updater applied to the config.
ExpectedReplays(frame) ==
  [k \in 1..Len(frame.buffer0) |->
     [config |-> IF frame.updater = Undefined
                   THEN frame.buffer0[k].config
                   ELSE [frame.buffer0[k].config EXCEPT !.token = "t"],
      deferred |-> frame.buffer0[k].deferred]]

\* The calls of $http made for the replays in `seq`: config and deferred.
Calls(seq) ==
  [k \in 1..Len(seq) |-> [config |-> seq[k].config, deferred |-> seq[k].deferred]]

\* C5: at the end of loginConfirmed(data, updater) called with N entries
\* buffered, exactly N replays were issued, one per entry in insertion
\* order, each with updater(entry.config) (the entry's config itself when
\* no updater is given) and the entry's deferred, and the buffer is empty.
C5_RetryAll ==
  Running("loginConfirmed", "done")
  => /\ buffer = <<>>
     /\ Calls(issued) = Calls(top.issued0) \o ExpectedReplays(top)

\* Witness of C5: loginConfirmed with an updater has replayed two parked
\* requests with different configs.
C5_Witness ==
  /\ Running("loginConfirmed", "done")
  /\ top.updater # Undefined
  /\ Len(top.buffer0) = 2
  /\ top.buffer0[1].config # top.buffer0[2].config
  /\ Len(issued) = 2

\* Witness of the round trip of C5: without an updater a parked config is
\* reissued as it was parked.
C5_WitnessIdentity ==
  /\ Running("loginConfirmed", "done")
  /\ top.updater = Undefined
  /\ Len(top.buffer0) = 1
  /\ Len(issued) = 1
  /\ issued[1].config = top.buffer0[1].config

\* The notification loginCancelled broadcasts.
CancelEvent(frame) ==
  [name |-> "event:auth-loginCancelled", payload |-> DataVal(frame.data)]

\* The notification loginConfirmed broadcasts.
ConfirmEvent(frame) ==
  [name |-> "event:auth-loginConfirmed", payload |-> DataVal(frame.data)]

\* Every deferred parked at the entry of the call `frame` has been rejected,
\* once, with the call's reason.
AllRejectedWithReason(frame) ==
  \A k \in 1..Len(frame.buffer0) :
    LET h == frame.buffer0[k].deferred
    IN  /\ deferreds[h].state = "rejected"
        /\ deferreds[h].value = ReasonVal(frame.reason)
        /\ deferreds[h].settled = 1

\* C6 (as claimed): loginCancelled(data, reason) with any defined reason,
\* truthy or not, rejects the N parked deferreds with that reason in
\* insertion order (while rejectAll runs the rejected ones are a prefix of
\* the buffer), leaves the buffer empty and then broadcasts
\* event:auth-loginCancelled.
C6_AnyDefinedReason ==
  /\ ( Running("loginCancelled", "rejectAll") /\ top.reason # Undefined )
     => \A k \in 1..Len(buffer) :
          (deferreds[buffer[k].deferred].state = "rejected") <=> (k <= top.i)
  /\ ( Running("loginCancelled", "done") /\ top.reason # Undefined )
     => /\ AllRejectedWithReason(top)
        /\ buffer = <<>>
        /\ log = << CancelEvent(top) >>

\* The part of C6 the code satisfies: the same with a truthy reason (one for
\* which rejectAll's `if (reason)` holds).
C6_TruthyReason ==
  /\ ( Running("loginCancelled", "rejectAll") /\ Truthy(top.reason) )
     => \A k \in 1..Len(buffer) :
          (deferreds[buffer[k].deferred].state = "rejected") <=> (k <= top.i)
  /\ ( Running("loginCancelled", "done") /\ Truthy(top.reason) )
     => /\ AllRejectedWithReason(top)
        /\ buffer = <<>>
        /\ log = << CancelEvent(top) >>

\* C7: loginCancelled(data) without a reason empties the buffer, settles
\* none of the N parked deferreds and still broadcasts
\* event:auth-loginCancelled; and in every later state each deferred dropped
\* that way is still neither resolved nor rejected, is in no buffer entry
\* and in no replay.
C7_AbandonedForGood ==
  /\ \A h \in abandoned :
       /\ deferreds[h].state = "pending"
       /\ deferreds[h].settled = 0
       /\ ~InBuffer(h)
       /\ \A k \in 1..Len(issued) : issued[k].deferred # h
  /\ ( Running("loginCancelled", "done") /\ top.reason = Undefined )
     => /\ buffer = <<>>
        /\ deferreds = top.deferreds0
        /\ \A k \in 1..Len(top.buffer0) : top.buffer0[k].deferred \in abandoned
        /\ log = << CancelEvent(top) >>

\* Witness of C7: after a request was abandoned by loginCancelled without a
\* reason, a loginCancelled with a reason has rejected another parked one.
C7_Witness ==
  /\ Running("loginCancelled", "done")
  /\ Truthy(top.reason)
  /\ Len(top.buffer0) = 1
  /\ abandoned # {}

\* C8 (as claimed): whenever event:auth-loginCancelled has been broadcast by
\* a running loginCancelled (its listeners are being notified, or have
\* been), the buffer is empty and, when a reason was given, every deferred
\* parked at the call has already been rejected with it.
C8_AnyGivenReason ==
  ( stack # <<>> /\ top.op = "loginCancelled" /\ log # <<>> )
  => /\ buffer = <<>>
     /\ top.reason # Undefined => AllRejectedWithReason(top)

\* The part of C8 the code satisfies: the event is broadcast once rejectAll
\* has returned, when the buffer is empty and, for a truthy reason, every
\* deferred parked at the call has been rejected with it.
C8_DrainedBeforeBroadcast ==
  ( stack # <<>> /\ top.op = "loginCancelled" )
  => /\ (top.pc \in {"listeners", "done"}) <=> (log = << CancelEvent(top) >>)
     /\ (top.pc = "rejectAll") => (log = <<>>)
     /\ (log # <<>>) =>
          /\ buffer = <<>>
          /\ Truthy(top.reason) => AllRejectedWithReason(top)

\* A state of C8_DrainedBeforeBroadcast's case: the listeners of event:auth-loginCancelled are notified
\* after two parked requests were rejected with a reason.
C8_Witness ==
  /\ Running("loginCancelled", "listeners")
  /\ Truthy(top.reason)
  /\ Len(top.buffer0) = 2
  /\ Len(log) = 1

\* C9: when the listeners of event:auth-loginConfirmed are notified, the
\* event carrying data is the one thing broadcast, every parked entry is
\* still in the buffer and no replay has been issued; and whenever a
\* running loginConfirmed has issued a replay or changed the buffer, the
\* event has been broadcast before.
C9_BroadcastBeforeReplay ==
  ( stack # <<>> /\ top.op = "loginConfirmed" )
  => /\ (top.pc = "listeners") =>
          /\ log = << ConfirmEvent(top) >>
          /\ buffer = top.buffer0
          /\ issued = top.issued0
     /\ (issued # top.issued0 \/ buffer # top.buffer0 \/ top.pc = "done") =>
          log = << ConfirmEvent(top) >>

\* Witness of C9: the listeners of event:auth-loginConfirmed are notified
\* while two requests are parked.
C9_Witness ==
  /\ Running("loginConfirmed", "listeners")
  /\ top.data = "user"
  /\ Len(buffer) = 2
  /\ issued = <<>>

\* C10: in every reachable state no deferred has had resolve or reject
\* called on it more than once.
C10_SettledAtMostOnce ==
  \A h \in Deferreds : deferreds[h].settled <= 1

\* Witness of C10: a replay failed with a 401 and was parked again, and the
\* success of its second replay resolved both deferreds, each once.
C10_Witness ==
  /\ deferreds[1].state = "resolved"
  /\ deferreds[1].settled = 1
  /\ deferreds[2].state = "resolved"
  /\ deferreds[2].settled = 1
  /\ deferreds[2].follower = 1

\* C11: a loginConfirmed called while nothing is parked issues no replay and
\* calls resolve or reject on no deferred, leaves the buffer empty, and still
\* broadcasts event:auth-loginConfirmed with its data, once.
C11_EmptyBuffer ==
  ( stack # <<>> /\ top.op = "loginConfirmed" /\ top.buffer0 = <<>> )
  => /\ buffer = <<>>
     /\ issued = top.issued0
     /\ deferreds = top.deferreds0
     /\ (top.pc \notin {"broadcast"}) => log = << ConfirmEvent(top) >>
     /\ (top.pc = "broadcast") => log = <<>>

\* Witness of C11: a second loginConfirmed returns right after a first one
\* replayed the one parked request: the replay of the first call is still
\* in flight and the second call found the buffer empty.
C11_Witness ==
  /\ Running("loginConfirmed", "done")
  /\ top.buffer0 = <<>>
  /\ top.data = "user"
  /\ Len(issued) = 1
  /\ top.issued0 = issued

\* C12: when the request interceptor returns, the config it hands to the
\* transport is the one it was given, and the preprocessor was not invoked,
\* if requestFilter returned false for it, and is the preprocessor's result
\* if requestFilter returned true; while the default requestFilter is
\* installed no request is preprocessed.
C12_RequestPath ==
  Running("request", "done")
  => /\ ret.kind = "config"
     /\ ~ApplyRequestFilter(requestFilter, top.config)
          => /\ top.category = "skipped"
             /\ ret.value.config = top.config
     /\ ApplyRequestFilter(requestFilter, top.config)
          => /\ top.category = "preprocessed"
             /\ ret.value.config =
                  ApplyRequestPreprocessor(requestPreprocessor, top.config)
     /\ (requestFilter = "default")
          => /\ top.category = "skipped"
             /\ ret.value.config = top.config

\* Witness of C12: a request that requestFilter selects leaves with the
\* token the installed preprocessor added.
C12_Witness ==
  /\ Running("request", "done")
  /\ requestFilter = "onlyA"
  /\ requestPreprocessor = "addToken"
  /\ top.config.url = "/a"
  /\ top.category = "preprocessed"
  /\ ret.value.config # top.config

\* Witness of C12: a request that requestFilter does not select leaves
\* unchanged although a preprocessor that adds a token is installed.
C12_WitnessSkipped ==
  /\ Running("request", "done")
  /\ requestFilter = "onlyA"
  /\ requestPreprocessor = "addToken"
  /\ top.config.url = "/b"
  /\ ret.value.config = top.config

\* The deferred of the k-th buffer entry has had neither resolve nor reject
\* called on it.
ParkedPending(k) ==
  /\ deferreds[buffer[k].deferred].state = "pending"
  /\ deferreds[buffer[k].deferred].settled = 0

C13_WitnessRejected ==
  /\ Running("loginCancelled", "broadcast")
  /\ Len(top.buffer0) = 1
  /\ deferreds[top.buffer0[1].deferred].state = "rejected"
  /\ buffer = <<>>

\* The deferreds settled together with h: h itself and the deferreds whose
\* replay is waiting for h, transitively.
RECURSIVE FollowerChain(_, _)
FollowerChain(ds, h) ==
  IF ds[h].follower = 0 THEN {h}
  ELSE {h} \cup FollowerChain(ds, ds[h].follower)

\* The step is the success of a replay: successCallback resolves the
\* replay's own deferred with the response, and no deferred of another
\* request changes.
C16_Success ==
  ( Idle /\ stack' = <<>> /\ issued' # issued )
  => \E k \in 1..Len(issued) :
       LET h == issued[k].deferred
       IN  /\ issued' = RemoveAt(issued, k)
           /\ deferreds'[h].state = "resolved"
           /\ deferreds'[h].value = Response(issued[k].sent)
           /\ deferreds'[h].settled = 1
           /\ \A g \in Deferreds \ FollowerChain(deferreds, h) :
                deferreds'[g] = deferreds[g]

\* responseError has handled the failure of a replay: when it hands the
\* failure on, errorCallback has rejected the replay's own deferred with
\* that failure and no deferred of another request has changed; when it
\* parks the request again, no deferred is settled.
C16_Failure ==
  ( Running("responseError", "done") /\ top.replayOf # 0 )
  => IF ret.kind = "rejected"
       THEN /\ ret.value = top.rejection
            /\ deferreds[top.replayOf].state = "rejected"
            /\ deferreds[top.replayOf].value = top.rejection
            /\ deferreds[top.replayOf].settled = 1
            /\ \A g \in Deferreds \ FollowerChain(top.deferreds0, top.replayOf) :
                 deferreds[g] = top.deferreds0[g]
       ELSE \A g \in Deferreds \ {top.deferred} :
              deferreds[g] = top.deferreds0[g]

C16_WitnessSuccess ==
  /\ Idle
  /\ Len(issued) = 1
  /\ deferreds[issued[1].deferred].state = "pending"
  /\ \E h \in Deferreds : /\ deferreds[h].state = "resolved"
                          /\ deferreds[h].value.kind = "response"

\* A step that installs a hook changes one hook and nothing else: the
\* buffer, its order, every deferred and every replay in flight are as
\* before.
C18_OnlyTheHook ==
  ( hooks' # hooks )
  => /\ UNCHANGED <<buffer, deferreds, issued, stack, log, ret, abandoned>>
     /\ \/ UNCHANGED <<requestFilter, requestPreprocessor>>
        \/ UNCHANGED <<responseErrorFilter, requestPreprocessor>>
        \/ UNCHANGED <<responseErrorFilter, requestFilter>>

\* What request and responseError return is decided by the hooks installed
\* now: a failed response is parked exactly when the installed
\* responseErrorFilter puts it in scope, and a request leaves as the
\* installed requestFilter and requestPreprocessor make it.
C18_InstalledHookDecides ==
  /\ Running("responseError", "done")
       => ( ret.kind = "promise"
            <=> /\ InScope(top.rejection)
                /\ top.rejection.status \in {400, 401} )
  /\ Running("request", "done")
       => ret.value.config = RequestInterceptor(top.config)

\* C18: the setters change only the installed hook, leaving the buffer, its
\* order and the parked deferreds as they are; what is classified afterwards
\* is decided by the hook installed then.
C18_Setters == []C18_InstalledHookDecides /\ [][C18_OnlyTheHook]_vars

\* Witness of C18: a failed response of /b was parked under the default
\* filter; then the filter that passes /b through was installed, the entry
\* is still parked and pending, and a later failed response of /b has been
\* handed on by the new filter.
C18_Witness ==
  /\ Running("responseError", "done")
  /\ responseErrorFilter = "skipB"
  /\ top.rejection.config.url = "/b"
  /\ top.rejection.status = 401
  /\ ret.kind = "rejected"
  /\ Len(buffer) = 1
  /\ buffer[1].config.url = "/b"
  /\ deferreds[buffer[1].deferred].state = "pending"

\* responseError has parked the failed replay of a request again: one entry
\* with a new deferred was appended and one notification broadcast, the
\* deferred of the entry replayed is as it was, pending, and the callbacks
\* of the replay wait for the new deferred.
C20_ParkedAgain ==
  ( /\ Running("responseError", "done")
    /\ top.replayOf # 0
    /\ InScope(top.rejection)
    /\ top.rejection.status \in {400, 401} )
  => \E d \in Deferreds :
       /\ top.deferreds0[d].state = "unused"
       /\ buffer = Append(top.buffer0, [config |-> top.rejection.config, deferred |-> d])
       /\ log = << [name |-> IF top.rejection.status = 400
                               THEN "event:auth-missingParameter"
                               ELSE "event:auth-loginRequired",
                    payload |-> top.rejection] >>
       /\ ret = [kind |-> "promise", value |-> NoValue, deferred |-> d]
       /\ deferreds[d].state = "pending"
       /\ deferreds[d].follower = top.replayOf
       /\ deferreds[top.replayOf] = top.deferreds0[top.replayOf]
       /\ deferreds[top.replayOf].state = "pending"
       /\ deferreds[top.replayOf].settled = 0

\* While an entry is in the buffer and its deferred is pending, the
\* deferreds of the earlier parkings of the same request are pending, in no
\* buffer entry and in no replay; and no two buffer entries belong to the
\* same request.
C20_OneEntryPerRequest ==
  /\ \A k \in 1..Len(buffer) :
       \A g \in FollowerChain(deferreds, buffer[k].deferred) \ {buffer[k].deferred} :
         /\ deferreds[g].state = deferreds[buffer[k].deferred].state
         /\ deferreds[g].settled = deferreds[buffer[k].deferred].settled
         /\ ParkedPending(k) => deferreds[g].state = "pending"
         /\ ~InBuffer(g)
         /\ \A j \in 1..Len(issued) : issued[j].deferred # g
  /\ \A j, k \in 1..Len(buffer) :
       j # k => FollowerChain(deferreds, buffer[j].deferred)
                  \cap FollowerChain(deferreds, buffer[k].deferred) = {}

\* Once the entry of a request has been dropped by a loginCancelled without
\* a reason, every deferred of that request stays pending for good.
C20_Abandoned ==
  \A h \in abandoned :
    \A g \in FollowerChain(deferreds, h) :
      /\ deferreds[g].state = "pending"
      /\ deferreds[g].settled = 0
      /\ ~InBuffer(g)
      /\ \A j \in 1..Len(issued) : issued[j].deferred # g

\* C20: a replay that fails with an in-scope 400 or 401 is parked again as
\* one new entry with a new notification, the original caller's deferred is
\* not settled by that failure and stays pending while the new entry is in
\* the buffer; each request has at most one entry in the buffer; and the
\* request is abandoned for good when that entry is dropped by a
\* loginCancelled without a reason.
C20_ReplayParkedAgain ==
  /\ C20_ParkedAgain
  /\ C20_OneEntryPerRequest
  /\ C20_Abandoned

\* Witness of C20: the replay of a parked request failed with a 401 and was
\* parked again, and the new entry was dropped by loginCancelled without a
\* reason: the original deferred is pending and nothing is left to settle it.
C20_Witness ==
  /\ Idle
  /\ buffer = <<>>
  /\ issued = <<>>
  /\ 2 \in abandoned
  /\ deferreds[2].follower = 1
  /\ deferreds[1].state = "pending"
  /\ deferreds[1].settled = 0

\* Witness of C20: responseError returns after parking a failed replay again.
C20_WitnessParked ==
  /\ Running("responseError", "done")
  /\ top.replayOf = 1
  /\ top.rejection.status = 401
  /\ Len(buffer) = 1
  /\ buffer[1].deferred = 2
  /\ deferreds[2].follower = 1
  /\ deferreds[1].state = "pending"

\* C14: when a loginConfirmed that found two entries in the buffer returns
\* and an entry was appended while its retryAll was draining, that entry is
\* still in the buffer and has not been replayed, and the two drained
\* entries are no longer in the buffer.
C14_AppendSurvivesDrain ==
  \A h \in Deferreds :
    ( /\ Len(stack) = 1
      /\ Running("loginConfirmed", "done")
      /\ Len(top.buffer0) = 2
      /\ top.deferreds0[h].state = "unused"
      /\ deferreds[h].state # "unused" )
    => /\ InBuffer(h)
       /\ \A k \in 1..Len(issued) : issued[k].deferred # h
       /\ \A j \in 1..Len(top.buffer0) : ~InBuffer(top.buffer0[j].deferred)

\* A loginConfirmed is running that was called from inside the updater of a
\* retryAll in progress.
ReenteredDrain ==
  /\ Len(stack) = 2
  /\ stack[1].op = "loginConfirmed"
  /\ stack[1].pc = "updater"
  /\ top.op = "loginConfirmed"

\* C15: a loginConfirmed entered again from inside the updater issues no
\* entry of the drain in progress a second time: among the replays issued
\* since the outer call began no deferred occurs twice.
C15_NoSecondIssue ==
  ReenteredDrain
  => LET drained == SubSeq(issued, Len(stack[1].issued0) + 1, Len(issued))
     IN  \A j, k \in 1..Len(drained) :
           j # k => drained[j].deferred # drained[k].deferred

\* C15, first half: the loginConfirmed entered again finds none of the
\* entries of the drain in progress in the buffer.
C15_FindsNoEntry ==
  ReenteredDrain
  => \A j \in 1..Len(stack[1].buffer0) :
       \A k \in 1..Len(top.buffer0) : top.buffer0[k] # stack[1].buffer0[j]

\* C17: no exception leaves retryAll or rejectAll, and when either has
\* returned the buffer is empty.
C17_CannotFail ==
  /\ \A f \in 1..Len(stack) : stack[f].pc # "threw"
  /\ ( stack # <<>> /\ top.op = "loginConfirmed" /\ top.pc = "done" )
       => buffer = <<>>
  /\ ( stack # <<>> /\ top.op = "loginCancelled" /\ top.pc \in {"broadcast", "listeners", "done"} )
       => buffer = <<>>

\* C17, the half about rejectAll: no exception leaves loginCancelled, and
\* the buffer is empty once rejectAll has returned.
C17_RejectAllCannotFail ==
  ( stack # <<>> /\ top.op = "loginCancelled" )
  => /\ top.pc # "threw"
     /\ (top.pc # "rejectAll") => buffer = <<>>

\* An exception has left a retryAll that had issued a replay: the entry
\* replayed and the entries not reached are all still in the buffer.
C17_AbortedDrainKeepsEntries ==
  ( Len(stack) = 1 /\ Running("loginConfirmed", "threw")
    /\ UpdaterThrows(top.updater, buffer[top.i + 1].config) )
  => /\ buffer = top.buffer0
     /\ Len(issued) = Len(top.issued0) + top.i

\* A call of loginConfirmed or loginCancelled made by a listener of the
\* parking notification of responseError has reached its end.
DrainedByListener(op) ==
  /\ Len(stack) = 2
  /\ stack[1].op = "responseError"
  /\ stack[1].pc = "listeners"
  /\ Running(op, "done")

C19_WitnessCancelled ==
  /\ DrainedByListener("loginCancelled")
  /\ top.reason = "cancelled"
  /\ deferreds[stack[1].deferred].state = "rejected"
  /\ buffer = <<>>

====
